---- MODULE Spec2Model ----
(***************************************************************************)
(* Order-book ingestion and top-of-book dissemination (nt-backend).        *)
(*                                                                         *)
(* The module models src/app/order_book_manager.py (OrderBook,             *)
(* OrderBookManager), src/app/market_manager.py (Market, MarketManager)    *)
(* and the ingestion task and websocket handler of src/app/main.py.        *)
(*                                                                         *)
(* Python values:                                                          *)
(*   None / a value        <<>> / <<v>>        (None, Some)                *)
(*   dict price -> qty     a function whose DOMAIN is the key set          *)
(*   dict ticker -> book   [keys: insertion order, val: function]          *)
(*   a raised exception    the field "raised" of a result record           *)
(***************************************************************************)
EXTENDS Integers, Sequences, FiniteSets, TLC

VARIABLES
    order_books,   \* OrderBookManager._order_books of main.order_book_manager
    ingest,        \* the process_messages task: "running" or "crashed"
    step,          \* the feed event or direct call handled last (history)
    active,        \* ConnectionManager: the active subscriber set
    handler,       \* websocket_endpoint, one coroutine per subscriber handle
    conn,          \* each subscriber's connection: "open", "slow" or "broken"
    wire           \* what each subscriber was sent (history)

vars == <<order_books, ingest, step, active, handler, conn, wire>>

-----------------------------------------------------------------------------
(* Bounds and input alphabets                                              *)

\* Largest quantity a level is driven to by deltas.
MaxQty == 2

\* Tickers of the feed; TX is a ticker the market registry does not know.
Tickers == {"T1", "T2", "TX"}

\* Price levels used by the feed (cents).
Prices == {45, 50}

\* Quantities a snapshot pair carries.
SnapQtys == {0, 1}

\* Quantity changes a delta carries.
Deltas == {-2, -1, 1}

Sides == {"yes", "no"}

\* Subscriber connections (each websocket connects once).
Handles == {"w1", "w2"}

\* Largest number of levels asked of get_market_depth.
MaxLevels == 3

-----------------------------------------------------------------------------
(* Python helpers                                                          *)

None == <<>>

Some(v) == <<v>>

Max(S) == CHOOSE x \in S : \A y \in S : y <= x

EmptyDict == [p \in {} |-> 0]

\* d[k] = v
DictSet(d, k, v) == [p \in (DOMAIN d) \cup {k} |-> IF p = k THEN v ELSE d[p]]

\* d.pop(k, None)
DictPop(d, k) == [p \in (DOMAIN d) \ {k} |-> d[p]]

\* d.get(k, default)
DictGet(d, k, default) == IF k \in DOMAIN d THEN d[k] ELSE default

\* `x or {}` for x a list or None: None and the empty list are both falsy.
OrEmpty(x) == IF x = None THEN <<>> ELSE x[1]

-----------------------------------------------------------------------------
(* OrderBook                                                               *)

\* OrderBook.__init__
OrderBook(market_ticker) ==
    [ market_ticker |-> market_ticker,
      yes_orders |-> EmptyDict,
      no_orders |-> EmptyDict,
      top_of_book_cache |-> None ]

\* One side's loop of update_from_snapshot: store the pairs in list order.
RECURSIVE StoreLevels(_, _)
StoreLevels(d, levels) ==
    IF levels = <<>> THEN d
    ELSE LET price == Head(levels)[1]
             quantity == Head(levels)[2]
         IN StoreLevels(IF quantity >= 0 THEN DictSet(d, price, quantity) ELSE d,
                        Tail(levels))

\* OrderBook.update_from_snapshot: the cache is left as it is.
OrderBook_update_from_snapshot(book, yes_orders, no_orders) ==
    [book EXCEPT !.yes_orders = StoreLevels(@, OrEmpty(yes_orders)),
                 !.no_orders = StoreLevels(@, OrEmpty(no_orders))]

\* DeltaLevels removing the level only when the new quantity is negative.
DeltaLevels_keeps_zero(d, price, delta) ==
    LET new_qty == DictGet(d, price, 0) + delta
    IN IF new_qty < 0 THEN DictPop(d, price) ELSE DictSet(d, price, new_qty)

\* One side of update_from_delta.
DeltaLevels(d, price, delta) ==
    LET new_qty == DictGet(d, price, 0) + delta
    IN IF new_qty <= 0 THEN DictPop(d, price) ELSE DictSet(d, price, new_qty)

\* OrderBook.update_from_delta
OrderBook_update_from_delta(book, price, delta, side) ==
    LET b == [book EXCEPT !.top_of_book_cache = None]
    IN IF side = "yes" THEN [b EXCEPT !.yes_orders = DeltaLevels(@, price, delta)]
       ELSE IF side = "no" THEN [b EXCEPT !.no_orders = DeltaLevels(@, price, delta)]
       ELSE b

\* ComputeTopOfBook taking the lowest no price for the ask.
ComputeTopOfBook_lowest_no(book) ==
    LET yes == book.yes_orders
        no == book.no_orders
        Min(S) == CHOOSE x \in S : \A y \in S : x <= y
    IN [ ticker |-> book.market_ticker,
         bid_price |-> IF DOMAIN yes # {} THEN Some(Max(DOMAIN yes)) ELSE None,
         bid_quantity |-> IF DOMAIN yes # {} THEN Some(yes[Max(DOMAIN yes)]) ELSE None,
         ask_price |-> IF DOMAIN no # {} THEN Some(100 - Min(DOMAIN no)) ELSE None,
         ask_quantity |-> IF DOMAIN no # {} THEN Some(no[Min(DOMAIN no)]) ELSE None ]

\* The body of top_of_book below the cache test.
ComputeTopOfBook(book) ==
    LET yes == book.yes_orders
        no == book.no_orders
    IN [ ticker |-> book.market_ticker,
         bid_price |-> IF DOMAIN yes # {} THEN Some(Max(DOMAIN yes)) ELSE None,
         bid_quantity |-> IF DOMAIN yes # {} THEN Some(yes[Max(DOMAIN yes)]) ELSE None,
         ask_price |-> IF DOMAIN no # {} THEN Some(100 - Max(DOMAIN no)) ELSE None,
         ask_quantity |-> IF DOMAIN no # {} THEN Some(no[Max(DOMAIN no)]) ELSE None ]

\* OrderBook.top_of_book: the value returned.
top_of_book(book) ==
    IF book.top_of_book_cache # None THEN book.top_of_book_cache[1]
    ELSE ComputeTopOfBook(book)

\* OrderBook.top_of_book: the book after the call (the result is cached).
AfterTopOfBook(book) == [book EXCEPT !.top_of_book_cache = Some(top_of_book(book))]

\* Python's order on (price, quantity) tuples.
TupleLess(a, b) == a[1] < b[1] \/ (a[1] = b[1] /\ a[2] < b[2])

\* sorted(items): the smallest tuple first.
RECURSIVE sorted(_)
sorted(items) ==
    IF items = {} THEN <<>>
    ELSE LET first == CHOOSE a \in items : \A b \in items : a = b \/ TupleLess(a, b)
         IN <<first>> \o sorted(items \ {first})

\* sorted(items, reverse=True)
Reversed(seq) == [i \in 1..Len(seq) |-> seq[Len(seq) + 1 - i]]

\* seq[:levels] for levels >= 0
Slice(seq, levels) == SubSeq(seq, 1, IF levels < Len(seq) THEN levels ELSE Len(seq))

\* d.items()
Items(d) == {<<price, d[price]>> : price \in DOMAIN d}

\* get_market_depth with the ask list left in the order of the no prices.
get_market_depth_asks_by_no_price(book, levels) ==
    LET ask_items == sorted(Items(book.no_orders))
    IN [ bids |-> Slice(Reversed(sorted(Items(book.yes_orders))), levels),
         asks |-> Slice([i \in 1..Len(ask_items) |->
                            <<100 - ask_items[i][1], ask_items[i][2]>>], levels) ]

\* OrderBook.get_market_depth
get_market_depth(book, levels) ==
    LET ask_items == {<<100 - item[1], item[2]>> : item \in Items(book.no_orders)}
    IN [ bids |-> Slice(Reversed(sorted(Items(book.yes_orders))), levels),
         asks |-> Slice(sorted(ask_items), levels) ]

-----------------------------------------------------------------------------
(* OrderBookManager                                                        *)

\* OrderBookManager.__init__
NoBooks == [keys |-> <<>>, val |-> [t \in {} |-> 0]]

Registered(obm) == DOMAIN obm.val

\* self._order_books[market_ticker] = order_book (a new key goes last)
BooksSet(obm, t, book) ==
    [ keys |-> IF t \in Registered(obm) THEN obm.keys ELSE Append(obm.keys, t),
      val |-> [k \in Registered(obm) \cup {t} |-> IF k = t THEN book ELSE obm.val[k]] ]

\* OrderBookManager.get_order_book
get_order_book(obm, t) == IF t \in Registered(obm) THEN Some(obm.val[t]) ELSE None

\* Manager_update_from_snapshot updating the registered book in place.
Manager_update_from_snapshot_in_place(obm, t, yes_orders, no_orders) ==
    BooksSet(obm, t,
             OrderBook_update_from_snapshot(
                 IF t \in Registered(obm) THEN obm.val[t] ELSE OrderBook(t),
                 yes_orders, no_orders))

\* Manager_update_from_snapshot rebuilding the registry around the new book.
Manager_update_from_snapshot_resets(obm, t, yes_orders, no_orders) ==
    BooksSet(NoBooks, t, OrderBook_update_from_snapshot(OrderBook(t), yes_orders, no_orders))

\* OrderBookManager.update_from_snapshot: a new OrderBook replaces the old one.
Manager_update_from_snapshot(obm, t, yes_orders, no_orders) ==
    BooksSet(obm, t, OrderBook_update_from_snapshot(OrderBook(t), yes_orders, no_orders))

\* Manager_update_from_delta registering an empty book for an unknown ticker
\* and applying the delta to it.
Manager_update_from_delta_creates(obm, t, price, delta, side) ==
    [ raised |-> "None",
      books |-> BooksSet(obm, t,
                         OrderBook_update_from_delta(
                             IF t \in Registered(obm) THEN obm.val[t] ELSE OrderBook(t),
                             price, delta, side)) ]

\* OrderBookManager.update_from_delta: dict.get gives None for an unknown
\* ticker, and None.update_from_delta raises AttributeError.
Manager_update_from_delta(obm, t, price, delta, side) ==
    IF t \in Registered(obm)
    THEN [ raised |-> "None",
           books |-> BooksSet(obm, t, OrderBook_update_from_delta(obm.val[t], price, delta, side)) ]
    ELSE [ raised |-> "AttributeError", books |-> obm ]

\* order_book.top_of_book() on the registered book of t
ReadTopOfBook(obm, t) == BooksSet(obm, t, AfterTopOfBook(obm.val[t]))

-----------------------------------------------------------------------------
(* MarketManager                                                           *)

\* The fields of the Market dataclass, for the markets load() stored.
Market(t) ==
    [ ticker |-> t,
      event_ticker |-> "EV",
      title |-> "title",
      team_name |-> "team",
      expected_expiration_time_utc |-> "exp",
      status |-> "open" ]

\* MarketManager._markets after load(): T1 and T2 are known, TX is not.
Markets == [t \in {"T1", "T2"} |-> Market(t)]

\* MarketManager.get_market: self._markets[ticker] raises KeyError.
get_market(t) ==
    IF t \in DOMAIN Markets THEN [raised |-> "None", market |-> Some(Markets[t])]
    ELSE [raised |-> "KeyError", market |-> None]

\* The attributes of a Market object: its fields and the property game_start_time.
MarketAttrs(market) == (DOMAIN market) \cup {"game_start_time"}

\* The attributes the message dict reads from `market`.
MessageAttrs ==
    { "event_ticker", "title", "team_name", "expected_expiration_time_utc",
      "game_start_time", "estimated_start_time" }

\* The dict literal `message = {**top_of_book, ...}` of broadcast_top_of_book
\* and send_all_top_of_books: reading an attribute Market does not have raises.
BuildMessage(top, market) ==
    IF MessageAttrs \subseteq MarketAttrs(market)
    THEN [ raised |-> "None",
           message |-> Some([ top |-> top,
                              event_ticker |-> market.event_ticker,
                              title |-> market.title,
                              team_name |-> market.team_name ]) ]
    ELSE [ raised |-> "AttributeError", message |-> None ]

-----------------------------------------------------------------------------
(* ConnectionManager (app/connection_manager.py)                           *)

\* What a subscriber has been sent: its catch-up messages in order, the last
\* live broadcast, whether a live broadcast reached it while its catch-up
\* was still running, its last inbound payload and the pongs sent in reply.
NoWire == [catchup |-> <<>>, live |-> None, early |-> FALSE, payload |-> "", pongs |-> 0]

\* ConnectionManager.connect: the handle joins the active set.
connect(act, h) == act \cup {h}

\* ConnectionManager.disconnect: removes the handle if present.
disconnect(act, h) == act \ {h}

\* websocket.send_text raises when the connection is broken.
SendFails(cn, h) == cn[h] = "broken"

\* websocket.send_text does not complete while the subscriber does not read.
SendBlocks(cn, h) == cn[h] = "slow"

\* ConnectionManager.broadcast awaits every send: it does not return while
\* the send to an active subscriber is blocked.
BroadcastBlocked(act, cn) == \E h \in act : SendBlocks(cn, h)

\* ConnectionManager.broadcast: the subscribers whose send fails.
BroadcastFailed(act, cn) == {h \in act : SendFails(cn, h)}

\* ConnectionManager.broadcast: the subscribers the message is delivered to.
BroadcastDelivered(act, cn) == act \ BroadcastFailed(act, cn)

\* ConnectionManager.broadcast: the active set afterwards.
BroadcastActive(act, cn) == act \ BroadcastFailed(act, cn)

\* The wire after a live broadcast of `message`.
BroadcastWire(w, act, cn, hd, message) ==
    [h \in Handles |->
        IF h \in BroadcastDelivered(act, cn)
        THEN [w[h] EXCEPT !.live = Some(message),
                          !.early = @ \/ hd[h].pc = "catchup"]
        ELSE w[h]]

-----------------------------------------------------------------------------
(* main.broadcast_top_of_book                                              *)

\* Lines 60-74: up to the message dict. `if order_book:` leaves top_of_book
\* unbound for a missing book, and the dict literal then raises.
broadcast_top_of_book(obm, market_ticker) ==
    LET order_book == get_order_book(obm, market_ticker)
        found == get_market(market_ticker)
    IN IF found.raised # "None"
       THEN [raised |-> found.raised, books |-> obm, top |-> None, message |-> None]
       ELSE IF order_book = None
       THEN [raised |-> "UnboundLocalError", books |-> obm, top |-> None, message |-> None]
       ELSE LET top == top_of_book(order_book[1])
                built == BuildMessage(top, found.market[1])
            IN [ raised |-> built.raised,
                 books |-> ReadTopOfBook(obm, market_ticker),
                 top |-> Some(top),
                 message |-> built.message ]

-----------------------------------------------------------------------------
(* main.process_messages                                                   *)

\* Snapshot sides of the feed: absent, or a list of [price, quantity] pairs
\* in ascending price order.
Levels == Prices \X SnapQtys

SnapLists ==
    {<<>>} \cup {<<a>> : a \in Levels}
           \cup {<<ab[1], ab[2]>> : ab \in {x \in Levels \X Levels : x[1][1] < x[2][1]}}

SnapSides == {None} \cup {Some(l) : l \in SnapLists}

Message(type, market_ticker, yes, no, price, delta, side) ==
    [ type |-> type, market_ticker |-> market_ticker, yes |-> yes, no |-> no,
      price |-> price, delta |-> delta, side |-> side ]

SnapshotMessages(tickers) ==
    { Message("orderbook_snapshot", t, y, n, 0, 0, "") :
        t \in tickers, y \in SnapSides, n \in SnapSides }

DeltaMessages(tickers) ==
    { Message("orderbook_delta", t, None, None, p, d, s) :
        t \in tickers, p \in Prices, d \in Deltas, s \in Sides }

OtherMessages == { Message(ty, "", None, None, 0, 0, "") : ty \in {"subscribed", "error", "ok"} }

FeedMessages == SnapshotMessages(Tickers) \cup DeltaMessages(Tickers) \cup OtherMessages

\* prev_top = order_book.top_of_book() if order_book else None
PrevTop(obm, t) ==
    IF get_order_book(obm, t) # None THEN Some(top_of_book(obm.val[t])) ELSE None

\* The books after prev_top was read (top_of_book caches its result).
AfterPrevTop(obm, t) ==
    IF get_order_book(obm, t) # None THEN ReadTopOfBook(obm, t) ELSE obm

\* The registry update of one feed message (lines 126-128 and 149).
ApplyUpdate(obm, m) ==
    IF m.type = "orderbook_snapshot"
    THEN [ raised |-> "None",
           books |-> Manager_update_from_snapshot(obm, m.market_ticker, m.yes, m.no) ]
    ELSE Manager_update_from_delta(obm, m.market_ticker, m.price, m.delta, m.side)

\* TopChanged comparing the prices only.
TopChanged_prices_only(prev_top, new_top) ==
    \/ prev_top = None
    \/ prev_top[1].bid_price # new_top.bid_price
    \/ prev_top[1].ask_price # new_top.ask_price

\* TopChanged with the comparison dropped: every update is broadcast.
TopChanged_always(prev_top, new_top) == TRUE

\* if prev_top != new_top
TopChanged(prev_top, new_top) == prev_top # Some(new_top)

\* OtherCase dropping every book when the feed reports an error.
OtherCase_clears_on_error(obm, m) == IF m.type = "error" THEN NoBooks ELSE obm

\* case "subscribed" and case _: the event is logged, the registry is not
\* touched.
OtherCase(obm, m) == obm

NoStep ==
    [ type |-> "", ticker |-> "", changed |-> FALSE, emitted |-> <<>>,
      top |-> None, raised |-> "None" ]

\* One iteration of the loop of process_messages, up to the await of
\* client_manager.broadcast: the books, what was raised, and the history.
process_message(obm, m) ==
    IF m.type \notin {"orderbook_snapshot", "orderbook_delta"}
    THEN [ books |-> OtherCase(obm, m), message |-> None,
           step |-> [NoStep EXCEPT !.type = m.type] ]
    ELSE
    LET t == m.market_ticker
        prev_top == PrevTop(obm, t)
        updated == ApplyUpdate(AfterPrevTop(obm, t), m)
    IN IF updated.raised # "None"
       THEN [ books |-> updated.books, message |-> None,
              step |-> [NoStep EXCEPT !.type = m.type, !.ticker = t,
                                      !.raised = updated.raised] ]
       ELSE
       LET new_top == top_of_book(updated.books.val[t])
           books == ReadTopOfBook(updated.books, t)
       IN IF ~TopChanged(prev_top, new_top)
          THEN [ books |-> books, message |-> None,
                 step |-> [NoStep EXCEPT !.type = m.type, !.ticker = t] ]
          ELSE LET b == broadcast_top_of_book(books, t)
               IN [ books |-> b.books, message |-> b.message,
                    step |-> [ type |-> m.type, ticker |-> t, changed |-> TRUE,
                               emitted |-> <<t>>, top |-> b.top,
                               raised |-> b.raised ] ]

\* Stored quantities stay within the model's bound.
WithinBound(obm) ==
    \A t \in Registered(obm) :
        /\ \A p \in DOMAIN obm.val[t].yes_orders : obm.val[t].yes_orders[p] <= MaxQty
        /\ \A p \in DOMAIN obm.val[t].no_orders : obm.val[t].no_orders[p] <= MaxQty

\* The ingestion task handles the feed's next message `m`, through the await
\* of client_manager.broadcast when there is one (the iteration ends when
\* the broadcast has returned). An exception leaves the loop and ends the
\* task (lifespan creates it once, line 181).
ProcessMessage(m) ==
    /\ ingest = "running"
    /\ LET r == process_message(order_books, m)
       IN /\ m.type = "orderbook_delta" => WithinBound(r.books)
          /\ order_books' = r.books
          /\ step' = r.step
          /\ ingest' = IF r.step.raised = "None" THEN "running" ELSE "crashed"
          /\ r.message # None => ~BroadcastBlocked(active, conn)
          /\ IF r.message # None
             THEN /\ active' = BroadcastActive(active, conn)
                  /\ wire' = BroadcastWire(wire, active, conn, handler, r.message[1])
             ELSE UNCHANGED <<active, wire>>
    /\ UNCHANGED <<handler, conn>>

-----------------------------------------------------------------------------
(* main.send_all_top_of_books                                              *)

\* The iterator of `for ticker in all_tickers`: get_all_tickers returns the
\* live keys view of _order_books, so the iterator remembers the dict's size
\* and raises RuntimeError when the dict has changed size since.
NewIter(obm) == [pos |-> 0, size |-> Len(obm.keys)]

\* catchup_message dropping the cache of the book it has read, so that the
\* next reader recomputes the top of book.
catchup_message_drops_cache(obm, ticker) ==
    LET order_book == get_order_book(obm, ticker)
        found == get_market(ticker)
    IN IF found.raised # "None"
       THEN [raised |-> found.raised, books |-> obm, message |-> None]
       ELSE IF order_book = None
       THEN [raised |-> "UnboundLocalError", books |-> obm, message |-> None]
       ELSE LET built == BuildMessage(top_of_book(order_book[1]), found.market[1])
            IN [ raised |-> built.raised,
                 books |-> BooksSet(obm, ticker,
                                    [order_book[1] EXCEPT !.top_of_book_cache = None]),
                 message |-> built.message ]

\* Lines 84-98: the loop body for `ticker`, up to the await of send_text.
catchup_message(obm, ticker) ==
    LET order_book == get_order_book(obm, ticker)
        found == get_market(ticker)
    IN IF found.raised # "None"
       THEN [raised |-> found.raised, books |-> obm, message |-> None]
       ELSE IF order_book = None
       THEN [raised |-> "UnboundLocalError", books |-> obm, message |-> None]
       ELSE LET built == BuildMessage(top_of_book(order_book[1]), found.market[1])
            IN [ raised |-> built.raised,
                 books |-> ReadTopOfBook(obm, ticker),
                 message |-> built.message ]

\* send_all_top_of_books from one resumption to the next await (or its end):
\* the iterator's next(), then the loop body and send_text.
send_all_top_of_books(obm, it, send_fails) ==
    IF Len(obm.keys) # it.size
    THEN [raised |-> "RuntimeError", done |-> FALSE, books |-> obm, it |-> it, message |-> None]
    ELSE IF it.pos >= Len(obm.keys)
    THEN [raised |-> "None", done |-> TRUE, books |-> obm, it |-> it, message |-> None]
    ELSE LET body == catchup_message(obm, obm.keys[it.pos + 1])
         IN IF body.raised # "None"
            THEN [ raised |-> body.raised, done |-> FALSE, books |-> body.books,
                   it |-> it, message |-> None ]
            ELSE IF send_fails
            THEN [ raised |-> "SendError", done |-> FALSE, books |-> body.books,
                   it |-> it, message |-> None ]
            ELSE [ raised |-> "None", done |-> FALSE, books |-> body.books,
                   it |-> [it EXCEPT !.pos = @ + 1], message |-> body.message ]

-----------------------------------------------------------------------------
(* main.websocket_endpoint                                                 *)

\* A handler: its place in websocket_endpoint, the catch-up loop's iterator,
\* and (history) the top of book of every ticker that was registered and
\* had market metadata when the handle connected.
Idle == [pc |-> "idle", it |-> None, at_connect |-> [t \in {} |-> 0]]

TopsNow(obm) ==
    [t \in Registered(obm) \cap DOMAIN Markets |-> top_of_book(obm.val[t])]

\* Inbound payloads: a ping object, another JSON object, text that is not
\* JSON, and JSON that is not an object (json.loads gives a list or None,
\* which has no .get).
Payloads == {"ping", "object", "not_json", "not_object"}

\* Line 197: await client_manager.connect(websocket).
Connect(h) ==
    /\ handler[h].pc = "idle"
    /\ active' = connect(active, h)
    /\ handler' = [handler EXCEPT ![h] = [pc |-> "catchup", it |-> None,
                                          at_connect |-> TopsNow(order_books)]]
    /\ UNCHANGED <<order_books, ingest, step, conn, wire>>

\* CatchUp whose exception handler closes the handler without calling
\* client_manager.disconnect.
CatchUp_leaks(h) ==
    /\ handler[h].pc = "catchup"
    /\ LET it == IF handler[h].it = None THEN NewIter(order_books) ELSE handler[h].it[1]
           r == send_all_top_of_books(order_books, it, SendFails(conn, h))
       IN /\ (r.raised = "None" /\ ~r.done) => ~SendBlocks(conn, h)
          /\ order_books' = r.books
          /\ IF r.raised # "None"
             THEN /\ handler' = [handler EXCEPT ![h].pc = "closed", ![h].it = None]
                  /\ UNCHANGED <<active, wire>>
             ELSE IF r.done
             THEN /\ handler' = [handler EXCEPT ![h].pc = "live", ![h].it = None]
                  /\ UNCHANGED <<active, wire>>
             ELSE /\ handler' = [handler EXCEPT ![h].it = Some(r.it)]
                  /\ wire' = [wire EXCEPT ![h].catchup = Append(@, r.message[1])]
                  /\ active' = active
    /\ UNCHANGED <<ingest, step, conn>>

\* Line 201: send_all_top_of_books runs to its next await (a send_text that
\* has completed); any exception is caught at lines 221-226, which
\* disconnect the handle.
CatchUp(h) ==
    /\ handler[h].pc = "catchup"
    /\ LET it == IF handler[h].it = None THEN NewIter(order_books) ELSE handler[h].it[1]
           r == send_all_top_of_books(order_books, it, SendFails(conn, h))
       IN /\ (r.raised = "None" /\ ~r.done) => ~SendBlocks(conn, h)
          /\ order_books' = r.books
          /\ IF r.raised # "None"
             THEN /\ active' = disconnect(active, h)
                  /\ handler' = [handler EXCEPT ![h].pc = "closed", ![h].it = None]
                  /\ wire' = wire
             ELSE IF r.done
             THEN /\ handler' = [handler EXCEPT ![h].pc = "live", ![h].it = None]
                  /\ UNCHANGED <<active, wire>>
             ELSE /\ handler' = [handler EXCEPT ![h].it = Some(r.it)]
                  /\ wire' = [wire EXCEPT ![h].catchup = Append(@, r.message[1])]
                  /\ active' = active
    /\ UNCHANGED <<ingest, step, conn>>

\* Lines 204-219: one payload of the receive loop.
Receive(h, payload) ==
    /\ handler[h].pc = "live"
    /\ conn[h] = "open"
    /\ IF payload = "not_object"
       THEN /\ active' = disconnect(active, h)
            /\ handler' = [handler EXCEPT ![h].pc = "closed", ![h].it = None]
            /\ wire' = [wire EXCEPT ![h].payload = payload, ![h].pongs = 0]
       ELSE /\ wire' = [wire EXCEPT ![h].payload = payload,
                                    ![h].pongs = IF payload = "ping" THEN 1 ELSE 0]
            /\ UNCHANGED <<active, handler>>
    /\ UNCHANGED <<order_books, ingest, step, conn>>

\* The client goes away: the connection breaks under the server.
Break(h) ==
    /\ handler[h].pc \in {"catchup", "live"}
    /\ conn[h] \in {"open", "slow"}
    /\ conn' = [conn EXCEPT ![h] = "broken"]
    /\ UNCHANGED <<order_books, ingest, step, active, handler, wire>>

\* Disconnected with the call of client_manager.disconnect left out.
Disconnected_keeps_member(h) ==
    /\ handler[h].pc = "live"
    /\ conn[h] = "broken"
    /\ handler' = [handler EXCEPT ![h].pc = "closed", ![h].it = None]
    /\ UNCHANGED <<order_books, ingest, step, active, conn, wire>>

\* The client stops reading: sends to it do not complete.
Stall(h) ==
    /\ handler[h].pc \in {"catchup", "live"}
    /\ conn[h] = "open"
    /\ conn' = [conn EXCEPT ![h] = "slow"]
    /\ UNCHANGED <<order_books, ingest, step, active, handler, wire>>

\* The client reads again.
Resume(h) ==
    /\ conn[h] = "slow"
    /\ conn' = [conn EXCEPT ![h] = "open"]
    /\ UNCHANGED <<order_books, ingest, step, active, handler, wire>>

\* Lines 206 and 221-223: receive_text raises WebSocketDisconnect.
Disconnected(h) ==
    /\ handler[h].pc = "live"
    /\ conn[h] = "broken"
    /\ active' = disconnect(active, h)
    /\ handler' = [handler EXCEPT ![h].pc = "closed", ![h].it = None]
    /\ UNCHANGED <<order_books, ingest, step, conn, wire>>

-----------------------------------------------------------------------------
(* The program: the ingestion task and the websocket handlers              *)

Init ==
    /\ order_books = NoBooks
    /\ ingest = "running"
    /\ step = NoStep
    /\ active = {}
    /\ handler = [h \in Handles |-> Idle]
    /\ conn = [h \in Handles |-> "open"]
    /\ wire = [h \in Handles |-> NoWire]

Ingest == \E m \in FeedMessages : ProcessMessage(m)

Next ==
    \/ Ingest
    \/ \E h \in Handles : Connect(h)
    \/ \E h \in Handles : CatchUp(h)
    \/ \E h \in Handles, payload \in Payloads : Receive(h, payload)
    \/ \E h \in Handles : Break(h)
    \/ \E h \in Handles : Stall(h)
    \/ \E h \in Handles : Resume(h)
    \/ \E h \in Handles : Disconnected(h)

Spec == Init /\ [][Next]_vars

-----------------------------------------------------------------------------
(* The order-book registry and the feed processor driven call by call:     *)
(* the books of UnitTickers are built through OrderBookManager's methods,  *)
(* and process_messages handles feed events against them.                  *)

UnitTickers == {"T1"}

\* order_book_manager.update_from_snapshot(t, yes, no)
CallSnapshot(t, yes, no) ==
    /\ order_books' = Manager_update_from_snapshot(order_books, t, yes, no)
    /\ step' = NoStep
    /\ UNCHANGED <<ingest, active, handler, conn, wire>>

\* order_book_manager.update_from_delta(t, price, delta, side)
CallDelta(t, price, delta, side) ==
    /\ LET r == Manager_update_from_delta(order_books, t, price, delta, side)
       IN /\ r.raised = "None"
          /\ WithinBound(r.books)
          /\ order_books' = r.books
    /\ step' = NoStep
    /\ UNCHANGED <<ingest, active, handler, conn, wire>>

\* order_book_manager.get_order_book(t).top_of_book()
CallTopOfBook(t) ==
    /\ t \in Registered(order_books)
    /\ order_books' = ReadTopOfBook(order_books, t)
    /\ step' = NoStep
    /\ UNCHANGED <<ingest, active, handler, conn, wire>>

UnitMessages == SnapshotMessages(UnitTickers) \cup DeltaMessages(UnitTickers) \cup OtherMessages

NextBook ==
    \/ \E t \in UnitTickers, yes \in SnapSides, no \in SnapSides : CallSnapshot(t, yes, no)
    \/ \E t \in UnitTickers, p \in Prices, d \in Deltas, s \in Sides : CallDelta(t, p, d, s)
    \/ \E t \in UnitTickers : CallTopOfBook(t)
    \/ \E m \in UnitMessages : ProcessMessage(m)

SpecBook == Init /\ [][NextBook]_vars

-----------------------------------------------------------------------------
(* The subscriber registry driven call by call: the websocket handlers run *)
(* as in the program, and client_manager.disconnect and                    *)
(* client_manager.broadcast are also called directly.                      *)

\* A message as broadcast_top_of_book hands it to client_manager.broadcast.
TextFor(t) ==
    [ top |-> ComputeTopOfBook(OrderBook(t)),
      event_ticker |-> Markets[t].event_ticker,
      title |-> Markets[t].title,
      team_name |-> Markets[t].team_name ]

BroadcastTexts == {TextFor(t) : t \in DOMAIN Markets}

\* client_manager.disconnect(h)
CallDisconnect(h) ==
    /\ active' = disconnect(active, h)
    /\ step' = [NoStep EXCEPT !.type = "disconnect", !.ticker = h]
    /\ UNCHANGED <<order_books, ingest, handler, conn, wire>>

\* await client_manager.broadcast(message)
CallBroadcast(message) ==
    /\ ~BroadcastBlocked(active, conn)
    /\ active' = BroadcastActive(active, conn)
    /\ wire' = BroadcastWire(wire, active, conn, handler, message)
    /\ step' = [NoStep EXCEPT !.type = "broadcast"]
    /\ UNCHANGED <<order_books, ingest, handler, conn>>

NextSubs ==
    \/ \E h \in Handles : Connect(h)
    \/ \E h \in Handles : CatchUp(h)
    \/ \E h \in Handles, payload \in Payloads : Receive(h, payload)
    \/ \E h \in Handles : Break(h)
    \/ \E h \in Handles : Stall(h)
    \/ \E h \in Handles : Resume(h)
    \/ \E h \in Handles : Disconnected(h)
    \/ \E h \in Handles : CallDisconnect(h)
    \/ \E message \in BroadcastTexts : CallBroadcast(message)

SpecSubs == Init /\ [][NextSubs]_vars

-----------------------------------------------------------------------------
(* The feed processor against deltas whose price is outside 1..99: books   *)
(* are registered through OrderBookManager.update_from_snapshot.           *)

\* The prices next to the valid range 1..99.
RangePrices == {0, 100}

RangeMessages ==
    { Message("orderbook_delta", t, None, None, p, d, s) :
        t \in UnitTickers, p \in RangePrices, d \in Deltas, s \in Sides }

NextRange ==
    \/ \E t \in UnitTickers, yes \in SnapSides, no \in SnapSides : CallSnapshot(t, yes, no)
    \/ \E m \in RangeMessages : ProcessMessage(m)

SpecRange == Init /\ [][NextRange]_vars

-----------------------------------------------------------------------------
(* The program fed the events of the scenario of spec section 8, on the    *)
(* ticker T1, which the market registry knows.                             *)

ScenarioSnapshot ==
    Message("orderbook_snapshot", "T1",
            Some(<< <<45, 10>>, <<50, 5>> >>), Some(<< <<40, 3>> >>), 0, 0, "")

ScenarioDelta50 == Message("orderbook_delta", "T1", None, None, 50, -5, "yes")

ScenarioDelta30 == Message("orderbook_delta", "T1", None, None, 30, 2, "yes")

ScenarioMessages == {ScenarioSnapshot, ScenarioDelta50, ScenarioDelta30}

NextScenario ==
    \/ \E m \in ScenarioMessages : ProcessMessage(m)
    \/ \E h \in Handles : Connect(h)
    \/ \E h \in Handles : CatchUp(h)
    \/ \E h \in Handles, payload \in Payloads : Receive(h, payload)
    \/ \E h \in Handles : Break(h)
    \/ \E h \in Handles : Stall(h)
    \/ \E h \in Handles : Resume(h)
    \/ \E h \in Handles : Disconnected(h)

SpecScenario == Init /\ [][NextScenario]_vars

-----------------------------------------------------------------------------
(* An OrderBook object driven method by method: the book the registry      *)
(* holds for a ticker of UnitTickers is fetched with get_order_book and    *)
(* its own update_from_snapshot is called on it, next to the registry's    *)
(* methods.                                                                *)

\* order_book_manager.get_order_book(t).update_from_snapshot(yes, no)
CallBookSnapshot(t, yes, no) ==
    /\ t \in Registered(order_books)
    /\ order_books' = BooksSet(order_books, t,
                               OrderBook_update_from_snapshot(order_books.val[t], yes, no))
    /\ step' = NoStep
    /\ UNCHANGED <<ingest, active, handler, conn, wire>>

NextObject ==
    \/ \E t \in UnitTickers, yes \in SnapSides, no \in SnapSides : CallSnapshot(t, yes, no)
    \/ \E t \in UnitTickers, yes \in SnapSides, no \in SnapSides : CallBookSnapshot(t, yes, no)
    \/ \E t \in UnitTickers, p \in Prices, d \in Deltas, s \in Sides : CallDelta(t, p, d, s)
    \/ \E t \in UnitTickers : CallTopOfBook(t)

SpecObject == Init /\ [][NextObject]_vars

-----------------------------------------------------------------------------
(* The order-book registry holding two books: the books of PairTickers are *)
(* built through OrderBookManager's methods, and process_messages handles  *)
(* feed events for either ticker against them.                             *)

PairTickers == {"T1", "T2"}

\* Snapshot sides of the pair feed: absent, or the one level 50 x 1.
PairSides == {None, Some(<<<<50, 1>>>>)}

PairPrices == {50}

PairDeltas == {-1, 1}

PairMessages ==
    { Message("orderbook_snapshot", t, y, n, 0, 0, "") :
        t \in PairTickers, y \in PairSides, n \in PairSides }
    \cup { Message("orderbook_delta", t, None, None, p, d, s) :
             t \in PairTickers, p \in PairPrices, d \in PairDeltas, s \in Sides }

NextPair ==
    \/ \E t \in PairTickers, yes \in PairSides, no \in PairSides : CallSnapshot(t, yes, no)
    \/ \E t \in PairTickers, p \in PairPrices, d \in PairDeltas, s \in Sides :
          CallDelta(t, p, d, s)
    \/ \E t \in PairTickers : CallTopOfBook(t)
    \/ \E m \in PairMessages : ProcessMessage(m)

SpecPair == Init /\ [][NextPair]_vars

-----------------------------------------------------------------------------
(* Properties                                                              *)

\* The best level of a side, from the stored levels alone.
BestLevel(levels) ==
    IF DOMAIN levels = {} THEN None
    ELSE Some(CHOOSE p \in DOMAIN levels : \A q \in DOMAIN levels : q <= p)

\* The top of book a book's stored levels define (no cache involved).
TopBy(book) ==
    LET bid == BestLevel(book.yes_orders)
        no == BestLevel(book.no_orders)
    IN [ ticker |-> book.market_ticker,
         bid_price |-> bid,
         bid_quantity |-> IF bid = None THEN None ELSE Some(book.yes_orders[bid[1]]),
         ask_price |-> IF no = None THEN None ELSE Some(100 - no[1]),
         ask_quantity |-> IF no = None THEN None ELSE Some(book.no_orders[no[1]]) ]

\* The top of book of ticker t in registry obm, None when t has no book.
TopIn(obm, t) == IF t \in Registered(obm) THEN Some(TopBy(obm.val[t])) ELSE None

OrderbookTypes == {"orderbook_snapshot", "orderbook_delta"}

\* This step is process_messages handling a snapshot or delta event.
FeedStep ==
    /\ ingest = "running"
    /\ step'.type \in OrderbookTypes
    /\ handler' = handler
    /\ conn' = conn
    /\ <<step, order_books>>' # <<step, order_books>>

\* This step is a feed event for which broadcast_top_of_book was called, for
\* a ticker the market registry knows.
BroadcastStep ==
    /\ FeedStep
    /\ step'.emitted # <<>>
    /\ step'.ticker \in DOMAIN Markets

C2_NoNonPositiveLevel ==
    \A t \in Registered(order_books) :
        /\ \A p \in DOMAIN order_books.val[t].yes_orders : order_books.val[t].yes_orders[p] >= 1
        /\ \A p \in DOMAIN order_books.val[t].no_orders : order_books.val[t].no_orders[p] >= 1

\* C3: a snapshot or delta event after which the ticker's top of book differs
\* from the one before it (no book before counts as different) makes the feed
\* processor emit exactly one change event, for that ticker, and the top of
\* book read for that event is the new one.
C3_ChangeEmitsOneEvent ==
    [][ (FeedStep /\ TopIn(order_books', step'.ticker) # TopIn(order_books, step'.ticker))
        => /\ step'.emitted = <<step'.ticker>>
           /\ step'.top = TopIn(order_books', step'.ticker) ]_vars

\* C3 happens: a delta took away the best bid at 50, the level at 45 is the
\* new best, and one event was emitted with it.
C3_Witness ==
    /\ step.type = "orderbook_delta"
    /\ step.changed
    /\ step.emitted = <<"T1">>
    /\ step.top # None
    /\ step.top[1].bid_price = Some(45)
    /\ DOMAIN order_books.val["T1"].yes_orders = {45}
    /\ DOMAIN order_books.val["T1"].no_orders # {}

\* C4: a snapshot or delta event that leaves the ticker's top of book as it
\* was emits no change event and sends nothing to any subscriber.
C4_NoChangeNoEvent ==
    [][ (FeedStep /\ TopIn(order_books', step'.ticker) = TopIn(order_books, step'.ticker))
        => /\ step'.emitted = <<>>
           /\ wire' = wire
           /\ active' = active ]_vars

\* C4 happens: a delta was applied to a book with two yes levels, the top of
\* book stayed, and the ingestion task goes on.
C4_Witness ==
    /\ step.type = "orderbook_delta"
    /\ step.ticker = "T1"
    /\ ~step.changed
    /\ step.raised = "None"
    /\ step.emitted = <<>>
    /\ ingest = "running"
    /\ Cardinality(DOMAIN order_books.val["T1"].yes_orders) = 2

\* C5: a delta event for a ticker without a book changes no book, emits no
\* change event, and leaves the ingestion task running.
C5_UnknownTickerDeltaIsDropped ==
    (step.type = "orderbook_delta" /\ step.ticker \notin Registered(order_books))
        => (ingest = "running" /\ step.emitted = <<>>)

\* C6: while a subscriber's catch-up is running it is not in the active set,
\* and no live broadcast reaches it before its catch-up has ended.
C6_CatchUpBeforeLive ==
    \A h \in Handles :
        /\ handler[h].pc = "catchup" => h \notin active
        /\ ~wire[h].early

\* C7: a subscriber whose catch-up is over (and whose connection did not
\* break) received exactly one catch-up message for each ticker that was
\* registered with metadata when it connected, each with that ticker's top of
\* book as of the connect, and no other catch-up message.
C7_CatchUpMatchesConnectTime ==
    \A h \in Handles :
        (handler[h].pc \in {"live", "closed"} /\ conn[h] = "open")
        => LET sent == wire[h].catchup
               known == handler[h].at_connect
           IN /\ \A t \in DOMAIN known :
                    Cardinality({i \in 1..Len(sent) : sent[i].top.ticker = t}) = 1
              /\ \A i \in 1..Len(sent) :
                    /\ sent[i].top.ticker \in DOMAIN known
                    /\ sent[i].top = known[sent[i].top.ticker]

\* C8: when a change is broadcast while an active subscriber's connection is
\* broken, that subscriber leaves the active set, every other active
\* subscriber gets the message, and the ingestion task goes on.
C8_FailedSendIsIsolated ==
    [][ (BroadcastStep /\ \E h \in active : conn[h] = "broken")
        => /\ \A h \in active : conn[h] = "broken" => h \notin active'
           /\ \A h \in active : conn[h] = "open" => wire'[h].live # None
           /\ ingest' = "running" ]_vars

\* C9: a detected change for a ticker with metadata is delivered, with the
\* new top of book, to every subscriber in the active set, and to no handle
\* outside it.
C9_ChangeReachesEveryActive ==
    [][ BroadcastStep
        => /\ \A h \in active :
                conn[h] = "open"
                => /\ wire'[h].live # None
                   /\ Some(wire'[h].live[1].top) = TopIn(order_books', step'.ticker)
           /\ \A h \in Handles \ active : wire'[h] = wire[h] ]_vars

\* C10: a change detected for a ticker without market metadata is dropped,
\* the book update stays applied, and the ingestion task goes on.
C10_MissingMetadataIsDropped ==
    (step.emitted # <<>> /\ step.ticker \notin DOMAIN Markets)
        => (ingest = "running" /\ step.ticker \in Registered(order_books))


\* This step calls client_manager.disconnect(h): the handler of h leaves
\* through one of its except clauses, or the call is made directly.
DisconnectOf(h) ==
    \/ handler[h].pc # "closed" /\ handler'[h].pc = "closed"
    \/ /\ step'.type = "disconnect"
       /\ step'.ticker = h
       /\ handler' = handler
       /\ conn' = conn
       /\ wire' = wire
       /\ <<step, active>>' # <<step, active>>

Ladders(obm) ==
    [t \in Registered(obm) |-> <<obm.val[t].yes_orders, obm.val[t].no_orders>>]

\* C12: a delta event for a registered ticker whose price is outside 1..99
\* is dropped: no side of any book changes, no level is stored at that
\* price, and the ingestion task goes on.
C12_OutOfRangeDeltaIsDropped ==
    [][ \A m \in RangeMessages :
            (ProcessMessage(m) /\ m.market_ticker \in Registered(order_books))
            => /\ Ladders(order_books') = Ladders(order_books)
               /\ \A t \in Registered(order_books') :
                     /\ m.price \notin DOMAIN order_books'.val[t].yes_orders
                     /\ m.price \notin DOMAIN order_books'.val[t].no_orders
               /\ ingest' = "running" ]_vars


\* The stored levels of one side of a book.
SideOf(book, side) == IF side = "yes" THEN book.yes_orders ELSE book.no_orders

Opposite(side) == IF side = "yes" THEN "no" ELSE "yes"

\* C13: update_from_delta(price, delta, side) on a registered book, with
\* newQty = (quantity stored at price on that side, 0 if none) + delta, leaves
\* the level absent when newQty <= 0 and stored with newQty otherwise, and
\* leaves every other level of that side and the whole opposite side as they
\* were.
C13_DeltaArithmetic ==
    \A t \in Registered(order_books), price \in Prices, delta \in Deltas, side \in Sides :
        LET before == order_books.val[t]
            r == Manager_update_from_delta(order_books, t, price, delta, side)
            after == r.books.val[t]
            currentQty == IF price \in DOMAIN SideOf(before, side)
                          THEN SideOf(before, side)[price] ELSE 0
            newQty == currentQty + delta
        IN /\ r.raised = "None"
           /\ newQty <= 0 => price \notin DOMAIN SideOf(after, side)
           /\ newQty > 0 => /\ price \in DOMAIN SideOf(after, side)
                            /\ SideOf(after, side)[price] = newQty
           /\ DOMAIN SideOf(after, side) \ {price} = DOMAIN SideOf(before, side) \ {price}
           /\ \A q \in DOMAIN SideOf(before, side) \ {price} :
                 SideOf(after, side)[q] = SideOf(before, side)[q]
           /\ SideOf(after, Opposite(side)) = SideOf(before, Opposite(side))

\* C13 happens: deltas have raised the yes level at 50 to quantity 2 (a
\* snapshot stores at most 1) next to a level at 45, with a no level stored,
\* and the last of them left the cache invalidated.
C13_Witness ==
    /\ "T1" \in Registered(order_books)
    /\ DOMAIN order_books.val["T1"].yes_orders = {45, 50}
    /\ order_books.val["T1"].yes_orders[50] = 2
    /\ DOMAIN order_books.val["T1"].no_orders # {}
    /\ order_books.val["T1"].top_of_book_cache = None


\* The levels a snapshot list defines: its pairs with a quantity above 0.
PositivePairs(levels) ==
    LET kept == {i \in 1..Len(levels) : levels[i][2] > 0}
    IN [price \in {levels[i][1] : i \in kept} |->
            levels[CHOOSE i \in kept : levels[i][1] = price][2]]

\* C14: after a snapshot event, each side the snapshot gives a list for
\* holds exactly the listed pairs whose quantity is above 0, and nothing else.
C14_SnapshotReplacesSide ==
    [][ \A m \in SnapshotMessages(Tickers) :
            ProcessMessage(m)
            => LET after == order_books'.val[m.market_ticker]
               IN /\ m.yes # None => after.yes_orders = PositivePairs(m.yes[1])
                  /\ m.no # None => after.no_orders = PositivePairs(m.no[1]) ]_vars


\* The prices a snapshot list names.
ListedPrices(levels) == {levels[i][1] : i \in 1..Len(levels)}

TopOfT1(bid_price, bid_quantity, ask_price, ask_quantity) ==
    Some([ ticker |-> "T1",
           bid_price |-> Some(bid_price), bid_quantity |-> Some(bid_quantity),
           ask_price |-> Some(ask_price), ask_quantity |-> Some(ask_quantity) ])

\* C16: on a fresh ticker the snapshot yes=[(45,10),(50,5)], no=[(40,3)]
\* gives bid 50/5 and ask 60/3, and the feed processor goes on; the delta
\* 50/yes/-5 that follows removes level 50, gives bid 45/10 and ask 60/3 and
\* emits one change event; the delta 30/yes/+2 after that stores level 30,
\* leaves the top of book as it was and emits nothing.
C16_Scenario ==
    [][ /\ (ProcessMessage(ScenarioSnapshot) /\ "T1" \notin Registered(order_books))
           => /\ TopIn(order_books', "T1") = TopOfT1(50, 5, 60, 3)
              /\ ingest' = "running"
        /\ (ProcessMessage(ScenarioDelta50)
              /\ TopIn(order_books, "T1") = TopOfT1(50, 5, 60, 3))
           => /\ 50 \notin DOMAIN order_books'.val["T1"].yes_orders
              /\ TopIn(order_books', "T1") = TopOfT1(45, 10, 60, 3)
              /\ step'.emitted = <<"T1">>
              /\ ingest' = "running"
        /\ (ProcessMessage(ScenarioDelta30)
              /\ TopIn(order_books, "T1") = TopOfT1(45, 10, 60, 3))
           => /\ 30 \in DOMAIN order_books'.val["T1"].yes_orders
              /\ TopIn(order_books', "T1") = TopOfT1(45, 10, 60, 3)
              /\ step'.emitted = <<>> ]_vars


\* C17: a subscriber whose connection has not broken and that has sent a
\* payload is still being served and in the active set, and its last payload
\* was answered with one pong when it was a ping and with nothing otherwise.
C17_PayloadKeepsSubscriber ==
    \A h \in Handles :
        (wire[h].payload \in Payloads /\ conn[h] = "open")
        => /\ handler[h].pc = "live"
           /\ h \in active
           /\ wire[h].pongs = IF wire[h].payload = "ping" THEN 1 ELSE 0


\* C18: a feed event of type subscribed or error, or of a type the
\* processor does not know, changes no book and no registry entry, sends
\* nothing to any subscriber, and leaves the ingestion task running.
C18_OtherEventsChangeNothing ==
    [][ \A m \in OtherMessages :
            ProcessMessage(m)
            => /\ order_books' = order_books
               /\ step'.emitted = <<>>
               /\ wire' = wire
               /\ active' = active
               /\ ingest' = "running" ]_vars

\* C18 happens: an error event was handled while T1 was registered with two
\* yes levels, and the ingestion task goes on.
C18_Witness ==
    /\ step.type = "error"
    /\ ingest = "running"
    /\ "T1" \in Registered(order_books)
    /\ DOMAIN order_books.val["T1"].yes_orders = {45, 50}


Smaller(a, b) == IF a < b THEN a ELSE b

\* C19: get_market_depth(levels) returns as bids the min(levels, number of
\* yes levels) highest yes prices in strictly descending order, and as asks
\* the min(levels, number of no levels) lowest ask prices (100 - no price) in
\* strictly ascending order, each with the quantity stored at its level.
C19_DepthIsBestLevelsInOrder ==
    \A t \in Registered(order_books), levels \in 0..MaxLevels :
        LET book == order_books.val[t]
            depth == get_market_depth(book, levels)
            bids == depth.bids
            asks == depth.asks
        IN /\ Len(bids) = Smaller(levels, Cardinality(DOMAIN book.yes_orders))
           /\ Len(asks) = Smaller(levels, Cardinality(DOMAIN book.no_orders))
           /\ \A i \in 1..Len(bids) :
                 /\ bids[i][1] \in DOMAIN book.yes_orders
                 /\ bids[i][2] = book.yes_orders[bids[i][1]]
                 /\ i > 1 => bids[i][1] < bids[i - 1][1]
           /\ \A p \in DOMAIN book.yes_orders :
                 (\E i \in 1..Len(bids) : bids[i][1] = p)
                 \/ (\A i \in 1..Len(bids) : p < bids[i][1])
           /\ \A i \in 1..Len(asks) :
                 /\ 100 - asks[i][1] \in DOMAIN book.no_orders
                 /\ asks[i][2] = book.no_orders[100 - asks[i][1]]
                 /\ i > 1 => asks[i][1] > asks[i - 1][1]
           /\ \A p \in DOMAIN book.no_orders :
                 (\E i \in 1..Len(asks) : asks[i][1] = 100 - p)
                 \/ (\A i \in 1..Len(asks) : 100 - p > asks[i][1])

\* C19 happens: T1 holds two levels on each side with different quantities,
\* so a depth of one level cuts both lists and a depth of two orders them.
C19_Witness ==
    /\ "T1" \in Registered(order_books)
    /\ DOMAIN order_books.val["T1"].yes_orders = {45, 50}
    /\ DOMAIN order_books.val["T1"].no_orders = {45, 50}
    /\ order_books.val["T1"].yes_orders[45] = 2
    /\ order_books.val["T1"].no_orders[50] = 2
    /\ get_market_depth(order_books.val["T1"], 1).asks = << <<50, 2>> >>
    /\ Len(get_market_depth(order_books.val["T1"], 2).bids) = 2


\* C20: a change detected while the send to an active subscriber is blocked
\* still reaches every other active subscriber, and the ingestion task goes
\* on to consume the next feed event.
C20_SlowSubscriberStallsNothing ==
    [][ (BroadcastStep /\ \E h \in active : conn[h] = "slow")
        => /\ \A h \in active : conn[h] = "open" => wire'[h].live # None
           /\ ingest' = "running" ]_vars


\* C22: every change of the registry or of a book (its levels or its cached
\* top of book) is made by the ingestion task handling a snapshot or delta
\* event; no step of a websocket handler (connect, catch-up, receive,
\* disconnect) changes any of it.
C22_SingleWriter ==
    [][ order_books' # order_books => FeedStep ]_vars

\* C22 happens: the catch-up of w1 has read the book of T1 (it ended on the
\* error raised for T1's message) and w2 is being served.
C22_Witness ==
    /\ "T1" \in Registered(order_books)
    /\ handler["w1"].pc = "closed"
    /\ conn["w1"] = "open"
    /\ wire["w1"].payload = ""
    /\ handler["w2"].pc = "live"


\* C23: the cached top of book of a book is never stale: whenever the cache
\* is filled, it is the top of book computed from the book's current levels,
\* after a snapshot applied to the book as well as after a delta.
C23_CacheNeverStale ==
    \A t \in Registered(order_books) :
        LET book == order_books.val[t]
        IN book.top_of_book_cache # None
               => book.top_of_book_cache[1] = ComputeTopOfBook(book)


\* C24: a ticker is registered by the first snapshot processed for it and by
\* nothing else: no step unregisters a ticker, a snapshot event leaves its
\* ticker registered, a delta (a feed event, or update_from_delta called
\* with any arguments) never adds a ticker, and get_order_book gives the
\* registered book, or None for a ticker that is not registered.
C24_BookLifecycle ==
    [][ /\ Registered(order_books) \subseteq Registered(order_books')
        /\ (FeedStep /\ step'.type = "orderbook_snapshot")
               => Registered(order_books') = Registered(order_books) \cup {step'.ticker}
        /\ (FeedStep /\ step'.type = "orderbook_delta")
               => Registered(order_books') = Registered(order_books)
        /\ \A t \in PairTickers, p \in PairPrices, d \in PairDeltas, s \in Sides :
               Registered(Manager_update_from_delta(order_books, t, p, d, s).books)
                   = Registered(order_books)
        /\ \A t \in PairTickers :
               get_order_book(order_books', t)
                   = IF t \in Registered(order_books')
                     THEN Some(order_books'.val[t]) ELSE None
      ]_vars

\* C24 happens: a delta event for T2, which no snapshot has registered, was
\* handled while T1 was registered, and T2 is still not registered.
C24_Witness ==
    /\ step.type = "orderbook_delta"
    /\ step.ticker = "T2"
    /\ Registered(order_books) = {"T1"}

\* C28: handling a snapshot or delta event for a ticker leaves every other
\* registered ticker registered, with the same levels and the same top of
\* book, and emits an event for no other ticker.
C28_PerTickerIsolation ==
    [][ FeedStep =>
          /\ \A u \in Registered(order_books) \ {step'.ticker} :
                /\ u \in Registered(order_books')
                /\ order_books'.val[u].yes_orders = order_books.val[u].yes_orders
                /\ order_books'.val[u].no_orders = order_books.val[u].no_orders
                /\ top_of_book(order_books'.val[u]) = top_of_book(order_books.val[u])
          /\ \A i \in 1..Len(step'.emitted) : step'.emitted[i] = step'.ticker
      ]_vars

\* C28 happens: a snapshot event for T2 was handled and changed T2's top of
\* book while T1 holds levels on both sides.
C28_Witness ==
    /\ step.type = "orderbook_snapshot"
    /\ step.ticker = "T2"
    /\ step.changed
    /\ "T1" \in Registered(order_books)
    /\ order_books.val["T1"].yes_orders # EmptyDict
    /\ order_books.val["T1"].no_orders # EmptyDict


\* C25: the message of a ticker the market registry knows can always be
\* built, with every field it names: building it for a registered book
\* raises nothing and gives a message, and a change detected for such a
\* ticker ends without an exception.
C25_MessageIsBuilt ==
    /\ \A t \in Registered(order_books) \cap DOMAIN Markets :
          LET built == BuildMessage(top_of_book(order_books.val[t]), get_market(t).market[1])
          IN built.raised = "None" /\ built.message # None
    /\ (step.emitted # <<>> /\ step.ticker \in DOMAIN Markets) => step.raised = "None"


\* C26: a subscriber whose catch-up was not over when the ingestion task
\* registered a new ticker (one with metadata that was not registered at the
\* connect) is not ended by its catch-up: unless its connection broke or it
\* sent a payload that is not an object, it is still in catch-up or live,
\* and in the active set.
C26_CatchUpToleratesGrowth ==
    \A h \in Handles :
        ( /\ handler[h].pc # "idle"
          /\ conn[h] = "open"
          /\ wire[h].payload # "not_object"
          /\ \E t \in Registered(order_books) \cap DOMAIN Markets :
                t \notin DOMAIN handler[h].at_connect )
        => (handler[h].pc \in {"catchup", "live"} /\ h \in active)


\* C27: a websocket handler that has ended, on the client's disconnect or on
\* an exception of its catch-up or of its receive loop, has left the active
\* set, and nothing is sent to its handle afterwards.
C27_NoSubscriberLeak ==
    [][ \A h \in Handles :
          handler'[h].pc = "closed"
          => /\ h \notin active'
             /\ handler[h].pc = "closed" => wire'[h] = wire[h] ]_vars

\* C27 happens: the handler of w1 was ended by an exception of its catch-up
\* and has left the active set, which still holds w2.
C27_Witness ==
    /\ handler["w1"].pc = "closed"
    /\ conn["w1"] = "open"
    /\ wire["w1"].payload = ""
    /\ active = {"w2"}

====
